---- MODULE Spec2Model ----
(***************************************************************************)
(* Model of the locator store (lib/locators.py) and of the test-data       *)
(* resolver (lib/data.py) of the mobile UI test-automation framework.      *)
(*                                                                         *)
(* Python values are modelled as tagged records, so that a cached value    *)
(* can be a whole document, one screen of it, or anything a caller         *)
(* injected, exactly as the untyped dictionaries of the source allow.      *)
(* Text that the code inspects character by character (strategy names,     *)
(* the ENC[ marker) is a sequence of one-character strings.                *)
(***************************************************************************)
EXTENDS Integers, Sequences, FiniteSets, TLC

VARIABLES
    platform,     \* LocatorManager.platform
    fileExists,   \* whether the file named by LocatorManager._locators_file exists
    doc,          \* what yaml.safe_load yields for that file
    cache,        \* LocatorManager._locators_cache: screen name -> Python value
    loads,        \* number of _load_locators calls made so far
    calls,        \* number of public calls made so far
    res,          \* outcome of the last public call
    last,         \* the last public call and the state it started from
    injected,     \* screen name -> the map the latest set_locators stored for it
    dataFileExists, \* whether DataManager.data_file exists
    dataDoc,      \* what yaml.safe_load yields for the test data file
    encryption_key, \* FrameworkProperties.encryption_key
    dm,           \* "unbuilt", "built" or "failed": the DataManager's construction
    _data,        \* DataManager._data
    decrypted,    \* the payloads handed to SecretManager.decrypt so far
    dcalls,       \* number of lookups made on the DataManager so far
    dloads,       \* number of _load_data calls made so far
    dres,         \* outcome of the last DataManager call
    dlast,        \* the last DataManager call
    fernet,       \* SecretManager instance -> the key its self.fernet is bound to
    held,         \* the latest ciphertext an encrypt call returned, and its origin
    cres,         \* outcome of the last SecretManager call
    clast,        \* the last SecretManager call
    handlers,     \* logging.getLogger(__name__).handlers
    level,        \* logging.getLogger(__name__).level
    lcalls,       \* number of setup_logger calls made so far in the process
    llast,        \* the last call made on the logger
    driver_classes,   \* WebDriverFactory.driver_classes
    application_type, \* execution_properties.application_type
    provider,     \* execution_properties.provider, as the member the name denotes
    created,      \* the drivers create_driver has returned so far
    wcalls,       \* number of create_driver calls made so far
    wres,         \* outcome of the last create_driver call
    wlast,        \* the last create_driver call
    args,         \* the arguments of the last run of encrypt.py
    exit_status,  \* its exit status
    stdout,       \* the lines it printed
    stderr,       \* the lines it printed to sys.stderr
    generated,    \* the keys SecretManager.generate_key returned during it
    constructed,  \* the keys SecretManager(key) was called with during it
    attempted     \* the texts secret_manager.decrypt was called with during it

locVars == <<platform, fileExists, doc, cache, loads, calls, res, last, injected>>

dataVars == <<dataFileExists, dataDoc, encryption_key, dm, _data, decrypted, dcalls,
             dloads, dres, dlast>>

cipherVars == <<fernet, held, cres, clast>>

loggerVars == <<handlers, level, lcalls, llast>>

driverVars == <<driver_classes, application_type, provider, created, wcalls, wres, wlast>>

commandVars == <<args, exit_status, stdout, stderr, generated, constructed, attempted>>

toolVars == <<loggerVars, driverVars, commandVars>>

vars == <<locVars, dataVars, cipherVars, toolVars>>

----------------------------------------------------------------------------
(* Bounds *)

MaxCalls == 3

MaxDataCalls == 2

MaxDepth == 2

MaxLen == 2

MaxSetupCalls == 3

MaxDriverCalls == 2

----------------------------------------------------------------------------
(* Python values *)

PyNone == [kind |-> "none"]

PyStr(cs) == [kind |-> "str", s |-> cs]

PyMap(f) == [kind |-> "map", m |-> f]

PyNum(n) == [kind |-> "num", n |-> n]

PyList(q) == [kind |-> "list", l |-> q]

PyTuple(a, b) == [kind |-> "tuple", fst |-> a, snd |-> b]

Ok(v) == [kind |-> "ok", val |-> v]

Err(e, names) == [kind |-> "err", exc |-> e, about |-> names]

NoResult == [kind |-> "nothing"]

EmptyDict == [x \in {} |-> PyNone]

\* value[key] for a string key
GetItem(value, key) ==
    IF value.kind = "map"
    THEN IF key \in DOMAIN value.m THEN Ok(value.m[key]) ELSE Err("KeyError", <<key>>)
    ELSE Err("TypeError", <<>>)

\* key in value
Contains(value, key) ==
    IF value.kind = "map" THEN Ok(key \in DOMAIN value.m)
    ELSE IF value.kind = "str" THEN Ok(FALSE)
    ELSE Err("TypeError", <<>>)

LowerLetters == <<"a","b","c","d","e","f","g","h","i","j","k","l","m",
                  "n","o","p","q","r","s","t","u","v","w","x","y","z">>

UpperLetters == <<"A","B","C","D","E","F","G","H","I","J","K","L","M",
                  "N","O","P","Q","R","S","T","U","V","W","X","Y","Z">>

UpperChar(c) ==
    IF \E i \in 1..Len(LowerLetters) : LowerLetters[i] = c
    THEN UpperLetters[CHOOSE i \in 1..Len(LowerLetters) : LowerLetters[i] = c]
    ELSE c

\* str.upper() forgotten: the text as it is
UpperIdentity(cs) == cs

\* str.upper()
Upper(cs) == [i \in 1..Len(cs) |-> UpperChar(cs[i])]

\* value.upper(): only strings have the method
CallUpper(value) ==
    IF value.kind = "str" THEN Ok(Upper(value.s)) ELSE Err("AttributeError", <<>>)

----------------------------------------------------------------------------
(* lib/types.py and lib/locators.py: enumerations *)

PlatformType == [ANDROID |-> "android", IOS |-> "ios", LINUX |-> "linux",
                 MAC |-> "mac", WINDOWS |-> "windows"]

\* member name -> member value (the AppiumBy constant)
LocatorType ==
    (<<"I","D">> :> "id")
 @@ (<<"N","A","M","E">> :> "name")
 @@ (<<"C","L","A","S","S","_","N","A","M","E">> :> "class name")
 @@ (<<"T","A","G","_","N","A","M","E">> :> "tag name")
 @@ (<<"X","P","A","T","H">> :> "xpath")
 @@ (<<"C","S","S","_","S","E","L","E","C","T","O","R">> :> "css selector")
 @@ (<<"L","I","N","K","_","T","E","X","T">> :> "link text")
 @@ (<<"P","A","R","T","I","A","L","_","L","I","N","K","_","T","E","X","T">>
        :> "partial link text")
 @@ (<<"A","C","C","E","S","S","I","B","I","L","I","T","Y","_","I","D">>
        :> "accessibility id")
 @@ (<<"I","M","A","G","E">> :> "-image")
 @@ (<<"A","N","D","R","O","I","D","_","D","A","T","A","_","M","A","T","C","H","E","R">>
        :> "-android datamatcher")
 @@ (<<"A","N","D","R","O","I","D","_","U","I","A","U","T","O","M","A","T","O","R">>
        :> "-android uiautomator")
 @@ (<<"A","N","D","R","O","I","D","_","V","I","E","W","T","A","G">>
        :> "-android viewtag")
 @@ (<<"I","O","S","_","C","L","A","S","S","_","C","H","A","I","N">>
        :> "-ios class chain")
 @@ (<<"I","O","S","_","P","R","E","D","I","C","A","T","E">>
        :> "-ios predicate string")
 @@ (<<"C","U","S","T","O","M">> :> "-custom")

\* LocatorType[name]: lookup of a member by its exact name
LocatorTypeByName(name) ==
    IF name \in DOMAIN LocatorType THEN Ok(LocatorType[name])
    ELSE Err("KeyError", <<>>)

----------------------------------------------------------------------------
(* Inputs of the locator store *)

\* one-character-per-element text
Chars_id == <<"i","d">>

Chars_ID == <<"I","D">>

Chars_Id == <<"I","d">>

Chars_xpath == <<"x","p","a","t","h">>

Chars_bogus == <<"b","o","g","u","s">>

\* a text the code never looks into
Opaque(t) == PyStr(<<t>>)

\* an element definition of a locators file: {"type": ..., "value": ...}
Entry(strategy, target) == PyMap([type |-> PyStr(strategy), value |-> Opaque(target)])

\* the locators file of the tests, plus a second screen
DocTwoScreens ==
    PyMap([login_screen |->
               PyMap([username |-> Entry(Chars_id, "username_field"),
                      password |-> Entry(Chars_xpath, "//input[@type='password']")]),
           home_screen |->
               PyMap([type |-> Entry(Chars_Id, "type_dropdown"),
                      title |-> Entry(Chars_bogus, "title_label")])])

DocNoScreens == PyMap(EmptyDict)

Docs == {DocTwoScreens, DocNoScreens}

Platforms == {"ANDROID", "IOS"}

ScreenNames == {"login_screen", "home_screen", "missing_screen"}

ElementNames == {"username", "type", "title", "home_screen", "missing_element"}

\* maps a caller hands to set_locators
InjectedLogin ==
    PyMap([username |-> Entry(Chars_ID, "injected_username"),
           title |-> Entry(Chars_bogus, "injected_title")])

InjectedOther == PyMap([username |-> Entry(Chars_xpath, "//other")])

InjectedMaps == {InjectedLogin, InjectedOther}

----------------------------------------------------------------------------
(* lib/locators.py: LocatorManager *)

\* _load_locators answering a missing file with an empty document
_load_locators_or_empty ==
    IF fileExists THEN Ok(doc) ELSE Ok(PyMap(EmptyDict))

\* LocatorManager._load_locators
_load_locators ==
    IF fileExists THEN Ok(doc)
    ELSE Err("FileNotFoundError", <<PlatformType[platform]>>)

\* the body of the try block of get_locator, on the cached value of the screen
LocatorTuple(value, element) ==
    LET data == GetItem(value, element) IN
    IF data.kind = "err" THEN data ELSE
    LET ty == GetItem(data.val, "type") IN
    IF ty.kind = "err" THEN ty ELSE
    LET up == CallUpper(ty.val) IN
    IF up.kind = "err" THEN up ELSE
    LET member == LocatorTypeByName(up.val) IN
    IF member.kind = "err" THEN member ELSE
    LET target == GetItem(data.val, "value") IN
    IF target.kind = "err" THEN target ELSE
    Ok(PyTuple(member.val, target.val))

\* the try/except of get_locator: a KeyError is re-raised naming element and screen
TryLocatorTuple(value, screen, element) ==
    LET r == LocatorTuple(value, element) IN
    IF r.kind = "err" /\ r.exc = "KeyError"
    THEN Err("KeyError", <<element, screen>>)
    ELSE r

Call(op, screen, element, arg) ==
    [op |-> op, screen |-> screen, element |-> element, arg |-> arg,
     cache |-> cache, loads |-> loads]

\* `screen not in self._locators_cache`, always reloading (the check left out)
NotCachedAlways(screen) == TRUE

\* `screen not in self._locators_cache`
NotCached(screen) == screen \notin DOMAIN cache

\* what get_locator stores for a screen that is not cached: the loaded document
GetLocatorCached(loaded, screen) == loaded

\* LocatorManager.get_locator
get_locator(screen, element) ==
    /\ calls < MaxCalls
    /\ calls' = calls + 1
    /\ last' = Call("get_locator", screen, element, PyNone)
    /\ IF NotCached(screen)
       THEN /\ loads' = loads + 1
            /\ IF _load_locators.kind = "err"
               THEN /\ res' = _load_locators
                    /\ cache' = cache
               ELSE /\ cache' = (screen :> GetLocatorCached(_load_locators.val, screen)) @@ cache
                    /\ res' = TryLocatorTuple(cache'[screen], screen, element)
       ELSE /\ loads' = loads
            /\ cache' = cache
            /\ res' = TryLocatorTuple(cache[screen], screen, element)
    /\ UNCHANGED <<platform, fileExists, doc, injected, dataVars, cipherVars, toolVars>>

\* the screen of a loaded document, an empty mapping standing in for a missing one
ScreenOfOrEmpty(locators, screen) ==
    IF locators.kind = "map" /\ screen \in DOMAIN locators.m
    THEN Ok(locators.m[screen])
    ELSE Ok(PyMap(EmptyDict))

\* `if screen not in locators: raise KeyError(...)`, then `locators[screen]`
ScreenOf(locators, screen) ==
    LET present == Contains(locators, screen) IN
    IF present.kind = "err" THEN present
    ELSE IF ~present.val THEN Err("KeyError", <<screen>>)
    ELSE GetItem(locators, screen)

\* LocatorManager.get_locators
get_locators(screen) ==
    /\ calls < MaxCalls
    /\ calls' = calls + 1
    /\ last' = Call("get_locators", screen, "", PyNone)
    /\ IF NotCached(screen)
       THEN /\ loads' = loads + 1
            /\ IF _load_locators.kind = "err"
               THEN /\ res' = _load_locators
                    /\ cache' = cache
               ELSE LET found == ScreenOf(_load_locators.val, screen) IN
                    IF found.kind = "err"
                    THEN /\ res' = found
                         /\ cache' = cache
                    ELSE /\ cache' = (screen :> found.val) @@ cache
                         /\ res' = Ok(cache'[screen])
       ELSE /\ loads' = loads
            /\ cache' = cache
            /\ res' = Ok(cache[screen])
    /\ UNCHANGED <<platform, fileExists, doc, injected, dataVars, cipherVars, toolVars>>

\* set_locators rebuilding the cache around the one screen
set_locators_clearing(screen, locators) ==
    /\ calls < MaxCalls
    /\ calls' = calls + 1
    /\ last' = Call("set_locators", screen, "", locators)
    /\ cache' = (screen :> locators)
    /\ injected' = (screen :> locators)
    /\ res' = Ok(PyNone)
    /\ UNCHANGED <<platform, fileExists, doc, loads, dataVars, cipherVars, toolVars>>

\* LocatorManager.set_locators
set_locators(screen, locators) ==
    /\ calls < MaxCalls
    /\ calls' = calls + 1
    /\ last' = Call("set_locators", screen, "", locators)
    /\ cache' = (screen :> locators) @@ cache
    /\ injected' = (screen :> locators) @@ injected
    /\ res' = Ok(PyNone)
    /\ UNCHANGED <<platform, fileExists, doc, loads, dataVars, cipherVars, toolVars>>

\* setup_logger was not called yet: the logger has no handler and no level
LoggerIdle ==
    /\ handlers = <<>>
    /\ level = 0
    /\ lcalls = 0
    /\ llast = [op |-> "import", arg |-> <<>>]

\* no WebDriverFactory was constructed
DriversIdle ==
    /\ driver_classes = <<>>
    /\ application_type = "WEB"
    /\ provider = "BITBAR"
    /\ created = <<>>
    /\ wcalls = 0
    /\ wres = NoResult
    /\ wlast = [op |-> "init", platform |-> "", provider |-> "", selected |-> "none"]

\* encrypt.py was not run: no arguments, and -1 for a status not yet there
NoArgs == [key |-> "None", text |-> <<>>, decrypt |-> FALSE]

CommandIdle ==
    /\ args = NoArgs
    /\ exit_status = -1
    /\ stdout = <<>>
    /\ stderr = <<>>
    /\ generated = <<>>
    /\ constructed = <<>>
    /\ attempted = <<>>

\* the logger, the driver factory and the command line are not in use
ToolsIdle == LoggerIdle /\ DriversIdle /\ CommandIdle

\* no ciphertext was made yet
NoCiphertext == [text |-> <<>>, by |-> "none", plain |-> <<>>]

\* no SecretManager is in use on its own
CipherIdle ==
    /\ fernet = [m \in {"m1", "m2"} |-> "k1"]
    /\ held = NoCiphertext
    /\ cres = NoResult
    /\ clast = [op |-> "init", m |-> "", arg |-> <<>>]

\* no DataManager is under construction
DataIdle ==
    /\ dataFileExists = FALSE
    /\ dataDoc = PyNone
    /\ encryption_key = "k1"
    /\ dm = "unbuilt"
    /\ _data = PyNone
    /\ decrypted = {}
    /\ dcalls = 0
    /\ dloads = 0
    /\ dres = NoResult
    /\ dlast = [op |-> "init", name |-> ""]

\* a constructor that loads the document at once and caches every screen
InitLocatorsEager ==
    /\ DataIdle
    /\ CipherIdle
    /\ ToolsIdle
    /\ platform \in Platforms
    /\ fileExists \in BOOLEAN
    /\ doc \in IF fileExists THEN Docs ELSE {PyNone}
    /\ cache = IF fileExists THEN [screen \in DOMAIN doc.m |-> doc.m[screen]] ELSE EmptyDict
    /\ loads = 1
    /\ calls = 0
    /\ res = IF fileExists THEN NoResult
             ELSE Err("FileNotFoundError", <<PlatformType[platform]>>)
    /\ last = [op |-> "init", screen |-> "", element |-> "", arg |-> PyNone,
               cache |-> EmptyDict, loads |-> 0]
    /\ injected = EmptyDict

\* LocatorManager.__init__: nothing is read, the cache is empty
InitLocators ==
    /\ DataIdle
    /\ CipherIdle
    /\ ToolsIdle
    /\ platform \in Platforms
    /\ fileExists \in BOOLEAN
    /\ doc \in IF fileExists THEN Docs ELSE {PyNone}
    /\ cache = EmptyDict
    /\ loads = 0
    /\ calls = 0
    /\ res = NoResult
    /\ last = [op |-> "init", screen |-> "", element |-> "", arg |-> PyNone,
               cache |-> EmptyDict, loads |-> 0]
    /\ injected = EmptyDict

NextLocators ==
    \/ \E screen \in ScreenNames, element \in ElementNames : get_locator(screen, element)
    \/ \E screen \in ScreenNames : get_locators(screen)
    \/ \E screen \in ScreenNames, locators \in InjectedMaps : set_locators(screen, locators)

SpecLocators == InitLocators /\ [][NextLocators]_vars

----------------------------------------------------------------------------
(* Properties of the locator store *)

IsLookup == last.op \in {"get_locator", "get_locators"}

\* the screen of the last call was not cached and the document was loaded for it
LoadedFresh == /\ IsLookup
               /\ last.screen \notin DOMAIN last.cache
               /\ fileExists

\* the document defines the screen
DocHasScreen(screen) == fileExists /\ screen \in DOMAIN doc.m

\* the document defines the element inside the screen
DocHasElement(screen, element) ==
    DocHasScreen(screen) /\ element \in DOMAIN doc.m[screen].m

\* C1: get_locator on a screen that is not cached yet, for an element the
\* document defines in that screen with strategy `id` and target T, returns
\* the pair (ID, T).
C1_FreshLookupResolvesInScreen ==
    ( /\ last.op = "get_locator"
      /\ LoadedFresh
      /\ DocHasElement(last.screen, last.element)
      /\ doc.m[last.screen].m[last.element].m.type.s = Chars_id )
    => res = Ok(PyTuple("id", doc.m[last.screen].m[last.element].m.value))

\* C2: a get_locator or get_locators call that fails leaves the cache exactly
\* as it was before the call.
C2_FailedLookupLeavesCache ==
    (IsLookup /\ res.kind = "err") => cache = last.cache

\* C3: as long as set_locators was never called, every cached screen holds
\* the document's element mapping of that screen, and get_locators returns it.
C3_CacheEqualsDocumentScreen ==
    injected = EmptyDict =>
        /\ \A screen \in DOMAIN cache :
              DocHasScreen(screen) /\ cache[screen] = doc.m[screen]
        /\ (last.op = "get_locators" /\ res.kind = "ok")
              => (DocHasScreen(last.screen) /\ res.val = doc.m[last.screen])

\* C4: once set_locators(s, m) ran, every lookup on s is served from m
\* without loading the document, and get_locators(s) returns m.
C4_InjectedScreenServedFromCache ==
    /\ \A screen \in DOMAIN injected :
          screen \in DOMAIN cache /\ cache[screen] = injected[screen]
    /\ (IsLookup /\ last.screen \in DOMAIN injected) =>
          LET m == injected[last.screen] IN
          /\ loads = last.loads
          /\ last.op = "get_locators" => res = Ok(m)
          /\ last.op = "get_locator" =>
                /\ last.element \notin DOMAIN m.m => res.kind = "err"
                /\ res.kind = "ok" =>
                      /\ last.element \in DOMAIN m.m
                      /\ res.val.snd = m.m[last.element].m.value

\* a lookup on an injected screen the document defines differently succeeded
C4_Witness ==
    /\ last.op = "get_locator"
    /\ last.screen \in DOMAIN injected
    /\ DocHasElement(last.screen, last.element)
    /\ res.kind = "ok"
    /\ res.val.snd # doc.m[last.screen].m[last.element].m.value

\* C5: get_locator for a screen that is neither cached nor a key of the
\* loaded document fails with a KeyError, whatever the element name.
C5_UnknownScreenIsKeyError ==
    ( /\ last.op = "get_locator"
      /\ LoadedFresh
      /\ ~DocHasScreen(last.screen) )
    => (res.kind = "err" /\ res.exc = "KeyError")

\* the element is not defined in the screen's entries, the screen being the
\* injected one if set_locators seeded it and the document's otherwise
ElementUndefinedInExistingScreen ==
    IF last.screen \in DOMAIN injected
    THEN last.element \notin DOMAIN injected[last.screen].m
    ELSE DocHasScreen(last.screen) /\ ~DocHasElement(last.screen, last.element)

\* C6: get_locator for an element the existing screen does not define fails
\* with the KeyError that names the element and the screen.
C6_UnknownElementIsKeyError ==
    (last.op = "get_locator" /\ ElementUndefinedInExistingScreen)
    => res = Err("KeyError", <<last.element, last.screen>>)

SameCharIgnoringCase(a, b) ==
    \/ a = b
    \/ \E i \in 1..Len(LowerLetters) :
          {a, b} = {LowerLetters[i], UpperLetters[i]}

\* two texts that differ at most in case
SameIgnoringCase(x, y) ==
    /\ Len(x) = Len(y)
    /\ \A i \in 1..Len(x) : SameCharIgnoringCase(x[i], y[i])

\* the well-formed entry the last get_locator call looked up, if there is one
LookedUpEntry ==
    IF /\ last.op = "get_locator"
       /\ last.screen \in DOMAIN cache
       /\ cache[last.screen].kind = "map"
       /\ last.element \in DOMAIN cache[last.screen].m
       /\ cache[last.screen].m[last.element].kind = "map"
       /\ {"type", "value"} \subseteq DOMAIN cache[last.screen].m[last.element].m
       /\ cache[last.screen].m[last.element].m.type.kind = "str"
    THEN Ok(cache[last.screen].m[last.element].m)
    ELSE Err("none", <<>>)

\* C8: the strategy name of the entry is matched against the LocatorType
\* names ignoring case: every case variant of a member's name yields that
\* member's strategy, every other name makes get_locator fail.
C8_StrategyMatchedIgnoringCase ==
    LookedUpEntry.kind = "ok" =>
        LET entry == LookedUpEntry.val IN
        IF \E name \in DOMAIN LocatorType : SameIgnoringCase(entry.type.s, name)
        THEN \A name \in DOMAIN LocatorType :
                SameIgnoringCase(entry.type.s, name)
                   => res = Ok(PyTuple(LocatorType[name], entry.value))
        ELSE res.kind = "err" /\ res.exc = "KeyError"

\* an entry declaring the mixed-case name `Id` resolved to the strategy of ID
C8_Witness ==
    /\ LookedUpEntry.kind = "ok"
    /\ LookedUpEntry.val.type.s = Chars_Id
    /\ res.kind = "ok"
    /\ res.val.fst = "id"

\* the entry is a {"type", "value"} mapping whose type names a LocatorType member
IsValidEntry(entry) ==
    /\ entry.kind = "map"
    /\ {"type", "value"} \subseteq DOMAIN entry.m
    /\ entry.m.type.kind = "str"
    /\ Upper(entry.m.type.s) \in DOMAIN LocatorType

\* C17: without a locators file, every lookup of a screen that is not cached
\* fails with the FileNotFoundError naming the platform and caches nothing,
\* while lookups of screens stored by set_locators still succeed.
C17_MissingFileFailsUncachedLookups ==
    ~fileExists =>
        /\ (IsLookup /\ last.screen \notin DOMAIN last.cache) =>
              /\ res = Err("FileNotFoundError", <<PlatformType[platform]>>)
              /\ cache = last.cache
        /\ (last.op = "get_locators" /\ last.screen \in DOMAIN injected) =>
              res = Ok(injected[last.screen])
        /\ ( /\ last.op = "get_locator"
             /\ last.screen \in DOMAIN injected
             /\ last.element \in DOMAIN injected[last.screen].m
             /\ IsValidEntry(injected[last.screen].m[last.element]) )
           => res.kind = "ok"

\* with the file missing and one screen injected, a lookup of another screen failed
C17_Witness ==
    /\ ~fileExists
    /\ injected # EmptyDict
    /\ IsLookup
    /\ last.screen \notin DOMAIN last.cache
    /\ res.kind = "err"
    /\ res.exc = "FileNotFoundError"

\* C19: no call removes a screen from the cache, and only set_locators
\* changes the value stored under a screen that is already cached.
C19_CacheGrowsMonotonically ==
    [][ /\ DOMAIN cache \subseteq DOMAIN cache'
        /\ \A screen \in DOMAIN cache :
              cache'[screen] # cache[screen]
                 => (last'.op = "set_locators" /\ last'.screen = screen)
      ]_vars

\* set_locators replaced the value of a cached screen next to another cached screen
C19_Witness ==
    /\ last.op = "set_locators"
    /\ last.screen \in DOMAIN last.cache
    /\ last.cache[last.screen] # cache[last.screen]
    /\ Cardinality(DOMAIN cache) >= 2
    /\ DOMAIN last.cache = DOMAIN cache

\* C20: a new LocatorManager has an empty cache and has loaded nothing,
\* whether its file exists or not; a load happens only inside a lookup of a
\* screen that is not cached.
C20_ConstructionLoadsNothing ==
    /\ (cache = EmptyDict /\ loads = 0 /\ res = NoResult)
    /\ [][ loads' # loads =>
              /\ loads' = loads + 1
              /\ last'.op \in {"get_locator", "get_locators"}
              /\ last'.screen \notin DOMAIN cache
         ]_vars

\* the first lookup on a manager whose file is missing made the first load
C20_Witness ==
    /\ ~fileExists
    /\ calls = 1
    /\ loads = 1
    /\ IsLookup
    /\ res.kind = "err"
    /\ res.exc = "FileNotFoundError"

\* the number of _load_locators calls a lookup of the screen makes
LoadsOfLookup(screen) == IF screen \in DOMAIN cache THEN 0 ELSE 1

\* C21: a get_locator or get_locators call loads the document once when its
\* screen is not cached and never when it is, so N screens not yet seen cost
\* N loads; a lookup that succeeded leaves its screen cached, so the next
\* lookup of that screen loads nothing.
C21_OneLoadPerUncachedScreen ==
    /\ []((IsLookup /\ res.kind = "ok") => last.screen \in DOMAIN cache)
    /\ [][ last'.op \in {"get_locator", "get_locators"}
              => loads' = loads + LoadsOfLookup(last'.screen) ]_vars
    /\ [][ ( /\ IsLookup
             /\ res.kind = "ok"
             /\ last'.op \in {"get_locator", "get_locators"}
             /\ last'.screen = last.screen )
              => loads' = loads ]_vars

C21_Witness ==
    /\ IsLookup
    /\ injected = EmptyDict
    /\ last.screen \in DOMAIN last.cache
    /\ Cardinality(DOMAIN cache) = 2
    /\ loads = 2
    /\ last.loads = 2
    /\ res.kind = "ok"

\* C22: set_locators assigns the cache entry of its screen and nothing else:
\* no load, the same document, the same entries for every other screen, the
\* value stored as given whatever its shape, replacing an earlier one.
C22_SetLocatorsTouchesOneEntry ==
    [][ last'.op = "set_locators" =>
          /\ loads' = loads
          /\ doc' = doc
          /\ fileExists' = fileExists
          /\ DOMAIN cache' = DOMAIN cache \cup {last'.screen}
          /\ \A other \in DOMAIN cache \ {last'.screen} :
                cache'[other] = cache[other]
          /\ cache'[last'.screen] = last'.arg
          /\ res' = Ok(PyNone)
      ]_vars

C22_Witness ==
    /\ last.op = "set_locators"
    /\ last.screen \in DOMAIN last.cache
    /\ last.cache[last.screen] # last.arg
    /\ cache[last.screen] = last.arg
    /\ \E other \in DOMAIN cache \ {last.screen} :
          cache[other] = last.cache[other]
    /\ last.arg = InjectedLogin
    /\ res = Ok(PyNone)

\* what get_locator returns on a LocatorManager that has made no call yet
FreshOutcome(screen, element) ==
    IF _load_locators.kind = "err" THEN _load_locators
    ELSE TryLocatorTuple(GetLocatorCached(_load_locators.val, screen),
                         screen, element)

\* C28: with no set_locators involved, get_locator(screen, element) gives,
\* after any calls made before it, the outcome it gives on a LocatorManager
\* that has made no call yet.
C28_OutcomeIndependentOfHistory ==
    (last.op = "get_locator" /\ injected = EmptyDict)
       => res = FreshOutcome(last.screen, last.element)

----------------------------------------------------------------------------
(* lib/utils/cryptography.py: SecretManager                                *)
(*                                                                         *)
(* A text is a sequence of atoms.  An atom is one character, or a run of   *)
(* characters that always travels as a unit: a word, the base64 text of a  *)
(* Fernet token, or such a text with its last character cut off.           *)

\* keys Fernet accepts
EncryptionKeys == {"k1", "k2"}

\* a key Fernet rejects: not 32 url-safe base64-encoded bytes
MalformedKeys == {"short"}

\* SecretManager.__init__
SecretManager_init(k) ==
    IF k \in EncryptionKeys THEN Ok(k) ELSE Err("ValueError", <<>>)

\* the texts that get encrypted: a word, the empty text, special characters
Plaintexts == {<<"s3cret">>, <<>>, <<"!","@","#">>}

\* the initialisation vectors Fernet may draw for one encryption
IVs == {1, 2}

\* Fernet token (the bytes Fernet.encrypt returns) -> the key it was made
\* under, its plaintext and the initialisation vector drawn for it
Tokens ==
    [
     ftok_k1_secret |-> [fkey |-> "k1", pt |-> <<"s3cret">>, iv |-> 1],
     ftok_k1_secret_b |-> [fkey |-> "k1", pt |-> <<"s3cret">>, iv |-> 2],
     ftok_k1_empty |-> [fkey |-> "k1", pt |-> <<>>, iv |-> 1],
     ftok_k1_empty_b |-> [fkey |-> "k1", pt |-> <<>>, iv |-> 2],
     ftok_k1_special |-> [fkey |-> "k1", pt |-> <<"!","@","#">>, iv |-> 1],
     ftok_k1_special_b |-> [fkey |-> "k1", pt |-> <<"!","@","#">>, iv |-> 2],
     ftok_k2_secret |-> [fkey |-> "k2", pt |-> <<"s3cret">>, iv |-> 1],
     ftok_k2_secret_b |-> [fkey |-> "k2", pt |-> <<"s3cret">>, iv |-> 2],
     ftok_k2_empty |-> [fkey |-> "k2", pt |-> <<>>, iv |-> 1],
     ftok_k2_empty_b |-> [fkey |-> "k2", pt |-> <<>>, iv |-> 2],
     ftok_k2_special |-> [fkey |-> "k2", pt |-> <<"!","@","#">>, iv |-> 1],
     ftok_k2_special_b |-> [fkey |-> "k2", pt |-> <<"!","@","#">>, iv |-> 2]]

\* base64.b64encode of a byte string: of each token, and of a token with a
\* flipped byte
Base64Of ==
    [
     ftok_k1_secret |-> "tok_k1_secret",
     ftok_k1_secret_b |-> "tok_k1_secret_b",
     ftok_k1_empty |-> "tok_k1_empty",
     ftok_k1_empty_b |-> "tok_k1_empty_b",
     ftok_k1_special |-> "tok_k1_special",
     ftok_k1_special_b |-> "tok_k1_special_b",
     ftok_k2_secret |-> "tok_k2_secret",
     ftok_k2_secret_b |-> "tok_k2_secret_b",
     ftok_k2_empty |-> "tok_k2_empty",
     ftok_k2_empty_b |-> "tok_k2_empty_b",
     ftok_k2_special |-> "tok_k2_special",
     ftok_k2_special_b |-> "tok_k2_special_b",
     ftok_tampered |-> "tok_tampered"]

\* base64 text -> the same text without its last character
CutToken ==
    [
     tok_k1_secret |-> "tok_k1_secre",
     tok_k1_secret_b |-> "tok_k1_secret_",
     tok_k1_empty |-> "tok_k1_empt",
     tok_k1_empty_b |-> "tok_k1_empty_",
     tok_k1_special |-> "tok_k1_specia",
     tok_k1_special_b |-> "tok_k1_special_",
     tok_k2_secret |-> "tok_k2_secre",
     tok_k2_secret_b |-> "tok_k2_secret_",
     tok_k2_empty |-> "tok_k2_empt",
     tok_k2_empty_b |-> "tok_k2_empty_",
     tok_k2_special |-> "tok_k2_specia",
     tok_k2_special_b |-> "tok_k2_special_",
     tok_tampered |-> "tok_tampere"]

Base64Texts == {Base64Of[bytes] : bytes \in DOMAIN Base64Of}

\* words of the documents -> their number of characters
Words == [text |-> 4, encrypted |-> 9, s3cret |-> 6, invalid |-> 7, data |-> 4]

\* single characters outside the base64 alphabet
NonBase64Chars == {"[", "]", "!", " ", "-", "@", "#"}

\* number of base64 characters an atom contributes, modulo 4
Base64Symbols(atom) ==
    IF atom \in Base64Texts THEN 0
    ELSE IF \E t \in DOMAIN CutToken : CutToken[t] = atom THEN 3
    ELSE IF atom \in DOMAIN Words THEN Words[atom] % 4
    ELSE IF atom \in NonBase64Chars THEN 0
    ELSE 1

RECURSIVE SumSymbols(_)
SumSymbols(text) ==
    IF text = <<>> THEN 0
    ELSE (Base64Symbols(Head(text)) + SumSymbols(Tail(text))) % 4

NotDiscarded(atom) == atom \notin NonBase64Chars

\* the bytes one atom of base64 text stands for
DecodedAtom(atom) ==
    IF atom \in Base64Texts
    THEN CHOOSE bytes \in DOMAIN Base64Of : Base64Of[bytes] = atom
    ELSE "raw"

\* base64.b64encode of a sequence of byte strings
b64encode(bytes) == [i \in 1..Len(bytes) |-> Base64Of[bytes[i]]]

\* base64.b64decode: characters outside the alphabet are discarded, what is
\* left must be a whole number of 4-character groups
b64decode(text) ==
    IF SumSymbols(text) # 0 THEN Err("binascii.Error", <<>>)
    ELSE LET kept == SelectSeq(text, NotDiscarded) IN
         Ok([i \in 1..Len(kept) |-> DecodedAtom(kept[i])])

\* code points UTF-8 cannot encode: a lone surrogate
Surrogates == {"U+D800"}

\* str.encode(): fails on a lone surrogate; the other characters used here
\* are ASCII, whose bytes have the values of their code points
str_encode(s) ==
    IF \E i \in 1..Len(s) : s[i] \in Surrogates
    THEN Err("UnicodeEncodeError", <<>>)
    ELSE Ok(s)

\* Fernet.encrypt under key k, with the initialisation vector iv
FernetEncrypt(k, plain, iv) ==
    CHOOSE token \in DOMAIN Tokens :
        Tokens[token] = [fkey |-> k, pt |-> plain, iv |-> iv]

\* Fernet.decrypt accepting a token made under any key
FernetDecryptAnyKey(k, bytes) ==
    IF /\ Len(bytes) = 1
       /\ bytes[1] \in DOMAIN Tokens
    THEN Ok(Tokens[bytes[1]].pt)
    ELSE Err("InvalidToken", <<>>)

\* Fernet.decrypt: only a token made under the bound key is accepted
FernetDecrypt(k, bytes) ==
    IF /\ Len(bytes) = 1
       /\ bytes[1] \in DOMAIN Tokens
       /\ Tokens[bytes[1]].fkey = k
    THEN Ok(Tokens[bytes[1]].pt)
    ELSE Err("InvalidToken", <<>>)

\* encrypt returning the Fernet token itself, without the base64 encoding
encrypt_without_base64(k, plain, iv) ==
    LET raw == str_encode(plain) IN
    IF raw.kind = "err" THEN raw
    ELSE Ok(<<FernetEncrypt(k, raw.val, iv)>>)

\* SecretManager.encrypt of a manager bound to key k, Fernet drawing iv
encrypt(k, plain, iv) ==
    LET raw == str_encode(plain) IN
    IF raw.kind = "err" THEN raw
    ELSE Ok(b64encode(<<FernetEncrypt(k, raw.val, iv)>>))

\* SecretManager.decrypt of a manager bound to key k
decrypt(k, encrypted_data) ==
    LET raw == b64decode(encrypted_data) IN
    IF raw.kind = "err" THEN raw ELSE FernetDecrypt(k, raw.val)

----------------------------------------------------------------------------
(* lib/data.py: DataManager *)

MarkerPrefix == <<"E","N","C","[">>

\* data.startswith('ENC[')
StartsWithMarker(text) ==
    Len(text) >= 4 /\ SubSeq(text, 1, 4) = MarkerPrefix

\* data[4:-1]: the text after the first four characters, without the last one
SlicePayload(text) ==
    LET n == Len(text) IN
    IF n <= 4 THEN <<>>
    ELSE IF text[n] \in DOMAIN CutToken
    THEN SubSeq(text, 5, n - 1) \o <<CutToken[text[n]]>>
    ELSE SubSeq(text, 5, n - 1)

\* the scalar branches of _process_secrets with a failed decryption swallowed:
\* the marked text is kept as it is
ProcessScalarLenient(k, node) ==
    IF node.kind = "str" /\ StartsWithMarker(node.s)
    THEN LET plain == decrypt(k, SlicePayload(node.s)) IN
         IF plain.kind = "err" THEN Ok(node) ELSE Ok(PyStr(plain.val))
    ELSE Ok(node)

\* the scalar branches of _process_secrets
ProcessScalar(k, node) ==
    IF node.kind = "str" /\ StartsWithMarker(node.s)
    THEN LET plain == decrypt(k, SlicePayload(node.s)) IN
         IF plain.kind = "err" THEN plain ELSE Ok(PyStr(plain.val))
    ELSE Ok(node)

\* DataManager._process_secrets of a manager whose SecretManager holds key k.
\* When several entries of one container fail, the error of one of them is
\* raised (the first one in document order, which a mapping here does not keep).
RECURSIVE _process_secrets(_, _)
_process_secrets(k, node) ==
    IF node.kind = "map"
    THEN LET sub == [name \in DOMAIN node.m |-> _process_secrets(k, node.m[name])] IN
         IF \E name \in DOMAIN sub : sub[name].kind = "err"
         THEN sub[CHOOSE name \in DOMAIN sub : sub[name].kind = "err"]
         ELSE Ok(PyMap([name \in DOMAIN sub |-> sub[name].val]))
    ELSE IF node.kind = "list"
    THEN LET sub == [i \in 1..Len(node.l) |-> _process_secrets(k, node.l[i])] IN
         IF \E i \in 1..Len(sub) : sub[i].kind = "err"
         THEN sub[CHOOSE i \in 1..Len(sub) :
                     /\ sub[i].kind = "err"
                     /\ \A j \in 1..(i - 1) : sub[j].kind = "ok"]
         ELSE Ok(PyList([i \in 1..Len(sub) |-> sub[i].val]))
    ELSE ProcessScalar(k, node)

\* the payloads _process_secrets hands to decrypt on a tree it walks to the end;
\* a walk that fails stops at the failing leaf and has handed over a subset
\* of them that contains the payload of that leaf
RECURSIVE DecryptArguments(_)
DecryptArguments(node) ==
    IF node.kind = "map"
    THEN UNION {DecryptArguments(node.m[name]) : name \in DOMAIN node.m}
    ELSE IF node.kind = "list"
    THEN UNION {DecryptArguments(node.l[i]) : i \in 1..Len(node.l)}
    ELSE IF node.kind = "str" /\ StartsWithMarker(node.s)
    THEN {SlicePayload(node.s)}
    ELSE {}

\* _load_data answering a missing file with an empty mapping
_load_data_or_empty ==
    IF ~dataFileExists THEN Ok(PyMap(EmptyDict))
    ELSE _process_secrets(encryption_key, dataDoc)

\* DataManager._load_data
_load_data ==
    IF ~dataFileExists THEN Err("FileNotFoundError", <<>>)
    ELSE _process_secrets(encryption_key, dataDoc)

\* DataManager.__init__: the SecretManager is built first, then the data is loaded
DataManager_init ==
    LET built == IF SecretManager_init(encryption_key).kind = "err"
                 THEN SecretManager_init(encryption_key)
                 ELSE _load_data IN
    /\ dm = "unbuilt"
    /\ dlast' = [op |-> "__init__", name |-> ""]
    /\ dres' = IF built.kind = "err" THEN built ELSE Ok(PyNone)
    /\ dm' = IF built.kind = "err" THEN "failed" ELSE "built"
    /\ _data' = IF built.kind = "err" THEN PyNone ELSE built.val
    /\ decrypted' = IF SecretManager_init(encryption_key).kind = "ok" /\ dataFileExists
                    THEN DecryptArguments(dataDoc)
                    ELSE {}
    /\ dloads' = IF SecretManager_init(encryption_key).kind = "ok" THEN dloads + 1
                 ELSE dloads
    /\ UNCHANGED <<dataFileExists, dataDoc, encryption_key, dcalls, locVars, cipherVars, toolVars>>

\* value.get(name, {}): only mappings have the method
GetOrEmpty(value, name) ==
    IF value.kind # "map" THEN Err("AttributeError", <<>>)
    ELSE IF name \in DOMAIN value.m THEN Ok(value.m[name])
    ELSE Ok(PyMap(EmptyDict))

\* DataManager.get_test_data
get_test_data(test_name) ==
    /\ dm = "built"
    /\ dcalls < MaxDataCalls
    /\ dcalls' = dcalls + 1
    /\ dlast' = [op |-> "get_test_data", name |-> test_name]
    /\ dres' = GetOrEmpty(_data, test_name)
    /\ UNCHANGED <<dataFileExists, dataDoc, encryption_key, dm, _data, decrypted, dloads,
                   locVars, cipherVars, toolVars>>

\* get_all_test_data loading and resolving the file again on every call
get_all_test_data_reloading ==
    /\ dm = "built"
    /\ dcalls < MaxDataCalls
    /\ dcalls' = dcalls + 1
    /\ dlast' = [op |-> "get_all_test_data", name |-> ""]
    /\ dloads' = dloads + 1
    /\ _data' = _load_data.val
    /\ dres' = Ok(_data')
    /\ UNCHANGED <<dataFileExists, dataDoc, encryption_key, dm, decrypted, locVars, cipherVars, toolVars>>

\* DataManager.get_all_test_data
get_all_test_data ==
    /\ dm = "built"
    /\ dcalls < MaxDataCalls
    /\ dcalls' = dcalls + 1
    /\ dlast' = [op |-> "get_all_test_data", name |-> ""]
    /\ dres' = Ok(_data)
    /\ UNCHANGED <<dataFileExists, dataDoc, encryption_key, dm, _data, decrypted, dloads,
                   locVars, cipherVars, toolVars>>

(* Inputs of the DataManager *)

Marked(payload, suffix) == PyStr(MarkerPrefix \o payload \o suffix)

\* every kind of leaf
Leaves ==
    { PyStr(<<"text">>),
      PyStr(<<"E","N","C">>),
      Marked(<<"tok_k1_secret">>, <<"]">>),
      Marked(<<"tok_k2_secret">>, <<"]">>),
      Marked(<<"encrypted">>, <<"]">>),
      Marked(<<"tok_k1_secret">>, <<"x">>),
      Marked(<<"tok_k1_secret">>, <<>>),
      PyNum(30),
      PyNone }

\* the leaves that accompany a nested value inside a container
SiblingLeaves ==
    { PyStr(<<"text">>), Marked(<<"tok_k1_empty">>, <<"]">>) }

SectionNames == {"login_test", "search_test"}

TestNames == SectionNames \cup {"nonexistent_test"}

\* sequences of at most MaxLen values: one from `inner` at any position, the
\* other positions filled with one sibling leaf
ListsAround(inner) ==
    UNION { { [i \in 1..n |-> IF i = at THEN t ELSE other] :
                t \in inner, at \in 1..n, other \in SiblingLeaves }
            : n \in 1..MaxLen }

\* mappings over the section names: a value from `inner` alone under either
\* name, or under the first name with a sibling leaf under the second
MapsAround(inner) ==
    { [name \in {at} |-> t] : at \in SectionNames, t \in inner }
    \cup { [name \in SectionNames |-> IF name = "login_test" THEN t ELSE other] :
              t \in inner, other \in SiblingLeaves }

\* the documents of nesting depth at most d
RECURSIVE Trees(_)
Trees(d) ==
    IF d = 0 THEN Leaves
    ELSE Leaves
         \cup {PyMap(EmptyDict), PyList(<<>>)}
         \cup {PyMap(f) : f \in MapsAround(Trees(d - 1))}
         \cup {PyList(q) : q \in ListsAround(Trees(d - 1))}

DataDocs == Trees(MaxDepth)

\* no LocatorManager is in use
LocatorsIdle ==
    /\ platform = "ANDROID"
    /\ fileExists = FALSE
    /\ doc = PyNone
    /\ cache = EmptyDict
    /\ loads = 0
    /\ calls = 0
    /\ res = NoResult
    /\ last = [op |-> "init", screen |-> "", element |-> "", arg |-> PyNone,
               cache |-> EmptyDict, loads |-> 0]
    /\ injected = EmptyDict

\* before DataManager(properties): a test data file, or none, and a key
InitData ==
    /\ LocatorsIdle
    /\ CipherIdle
    /\ ToolsIdle
    /\ dataFileExists \in BOOLEAN
    /\ dataDoc \in IF dataFileExists THEN DataDocs ELSE {PyNone}
    /\ encryption_key \in EncryptionKeys \cup MalformedKeys
    /\ dm = "unbuilt"
    /\ _data = PyNone
    /\ decrypted = {}
    /\ dcalls = 0
    /\ dloads = 0
    /\ dres = NoResult
    /\ dlast = [op |-> "init", name |-> ""]

NextData ==
    \/ DataManager_init
    \/ \E test_name \in TestNames : get_test_data(test_name)
    \/ get_all_test_data

SpecData == InitData /\ [][NextData]_vars

----------------------------------------------------------------------------
(* SecretManager instances used on their own, as the tests of             *)
(* lib/utils/cryptography.py use them                                      *)

\* the SecretManager instances: a test builds at most two
Managers == {"m1", "m2"}

\* the strings handed to encrypt
Strings == Plaintexts \cup {<<"U+D800">>}

\* strings handed to decrypt that no encrypt call returned: text that is not
\* base64, the base64 text of a token with a flipped byte, base64 text of
\* bytes that are no token, and the empty string
InvalidTexts ==
    { <<"invalid", "-", "data">>, <<"tok_tampered">>, <<"text">>, <<>> }

\* what a caller may hand to decrypt: an invalid text, the ciphertext it
\* holds, or that ciphertext with its last character cut off
DecryptInputs ==
    InvalidTexts \cup
    (IF held.by = "none" THEN {} ELSE {held.text}) \cup
    (IF held.by # "none" /\ held.text[1] \in DOMAIN CutToken
     THEN {<<CutToken[held.text[1]]>>}
     ELSE {})

\* SecretManager.encrypt on instance m
SecretManager_encrypt(m, plain) ==
    \E iv \in IVs :
        LET out == encrypt(fernet[m], plain, iv) IN
        /\ cres' = out
        /\ held' = IF out.kind = "ok"
                   THEN [text |-> out.val, by |-> m, plain |-> plain]
                   ELSE held
        /\ clast' = [op |-> "encrypt", m |-> m, arg |-> plain]
        /\ UNCHANGED <<fernet, locVars, dataVars, toolVars>>

\* SecretManager.decrypt on instance m
SecretManager_decrypt(m, encrypted_data) ==
    /\ cres' = decrypt(fernet[m], encrypted_data)
    /\ clast' = [op |-> "decrypt", m |-> m, arg |-> encrypted_data]
    /\ UNCHANGED <<fernet, held, locVars, dataVars, toolVars>>

\* SecretManager(key) for each instance, every key one Fernet accepts
InitCipher ==
    /\ LocatorsIdle
    /\ DataIdle
    /\ ToolsIdle
    /\ fernet \in [Managers -> EncryptionKeys]
    /\ held = NoCiphertext
    /\ cres = NoResult
    /\ clast = [op |-> "init", m |-> "", arg |-> <<>>]

NextCipher ==
    \/ \E m \in Managers, plain \in Strings : SecretManager_encrypt(m, plain)
    \/ \E m \in Managers, encrypted_data \in DecryptInputs :
          SecretManager_decrypt(m, encrypted_data)

SpecCipher == InitCipher /\ [][NextCipher]_vars

----------------------------------------------------------------------------
(* Properties of the DataManager *)

\* the name is a top-level key of the resolved tree
IsTopLevelKey(name) == _data.kind = "map" /\ name \in DOMAIN _data.m

\* C9: on every DataManager that was constructed, get_test_data of a name
\* that is not a top-level key of the resolved tree returns the empty mapping.
C9_MissingSectionIsEmptyMapping ==
    ( /\ dm = "built"
      /\ dlast.op = "get_test_data"
      /\ ~IsTopLevelKey(dlast.name) )
    => dres = Ok(PyMap(EmptyDict))

\* a string carrying the complete marker: ENC[ in front, ] at the end
IsEncryptedScalar(node) ==
    /\ node.kind = "str"
    /\ Len(node.s) >= 5
    /\ SubSeq(node.s, 1, 4) = MarkerPrefix
    /\ node.s[Len(node.s)] = "]"

\* the text between the prefix and the suffix of a complete marker
InnerPayload(node) == SubSeq(node.s, 5, Len(node.s) - 1)

\* `out` is `in` with every EncryptedScalar leaf replaced by its plaintext
\* under key k, and with nothing else changed
RECURSIVE OnlySecretsReplaced(_, _, _)
OnlySecretsReplaced(k, in, out) ==
    IF in.kind = "map"
    THEN /\ out.kind = "map"
         /\ DOMAIN out.m = DOMAIN in.m
         /\ \A name \in DOMAIN in.m : OnlySecretsReplaced(k, in.m[name], out.m[name])
    ELSE IF in.kind = "list"
    THEN /\ out.kind = "list"
         /\ Len(out.l) = Len(in.l)
         /\ \A i \in 1..Len(in.l) : OnlySecretsReplaced(k, in.l[i], out.l[i])
    ELSE IF IsEncryptedScalar(in)
    THEN /\ out.kind = "str"
         /\ decrypt(k, InnerPayload(in)) = Ok(out.s)
    ELSE out = in

\* C10: the tree _process_secrets returns has the shape of its input and
\* differs from it only at EncryptedScalar leaves, each replaced by the
\* decryption of its payload.
C10_MaterializePreservesShape ==
    dm = "built" => OnlySecretsReplaced(encryption_key, dataDoc, _data)

\* the scalar leaves of a tree
RECURSIVE LeavesOf(_)
LeavesOf(node) ==
    IF node.kind = "map"
    THEN UNION {LeavesOf(node.m[name]) : name \in DOMAIN node.m}
    ELSE IF node.kind = "list"
    THEN UNION {LeavesOf(node.l[i]) : i \in 1..Len(node.l)}
    ELSE {node}

EncryptedScalarsOf(node) == {leaf \in LeavesOf(node) : IsEncryptedScalar(leaf)}

\* C11: for a document without any EncryptedScalar, _process_secrets returns
\* a tree equal to the document and decrypt is never called.
C11_NoMarkerIsIdentity ==
    ( /\ dm # "unbuilt"
      /\ encryption_key \in EncryptionKeys
      /\ dataFileExists
      /\ EncryptedScalarsOf(dataDoc) = {} )
    => /\ dm = "built"
       /\ _data = dataDoc
       /\ decrypted = {}

\* `out` is `in` with every string that lacks the complete marker left as it is
RECURSIVE UnmarkedStringsKept(_, _)
UnmarkedStringsKept(in, out) ==
    IF in.kind = "map"
    THEN /\ out.kind = "map"
         /\ DOMAIN out.m = DOMAIN in.m
         /\ \A name \in DOMAIN in.m : UnmarkedStringsKept(in.m[name], out.m[name])
    ELSE IF in.kind = "list"
    THEN /\ out.kind = "list"
         /\ Len(out.l) = Len(in.l)
         /\ \A i \in 1..Len(in.l) : UnmarkedStringsKept(in.l[i], out.l[i])
    ELSE (in.kind = "str" /\ ~IsEncryptedScalar(in)) => out = in

\* C12: only a string with the complete marker, ENC[ in front and ] at the
\* end, is decrypted, and what is decrypted is the text between the two;
\* every other string is returned as it is.
C12_OnlyCompleteMarkerDecrypted ==
    dm = "built" =>
        /\ decrypted = {InnerPayload(leaf) : leaf \in EncryptedScalarsOf(dataDoc)}
        /\ UnmarkedStringsKept(dataDoc, _data)

\* every leaf of `in` that _process_secrets hands to decrypt is, in `out`,
\* the plaintext of its payload under key k
RECURSIVE MarkedLeavesResolved(_, _, _)
MarkedLeavesResolved(k, in, out) ==
    IF in.kind = "map"
    THEN /\ out.kind = "map"
         /\ DOMAIN out.m = DOMAIN in.m
         /\ \A name \in DOMAIN in.m : MarkedLeavesResolved(k, in.m[name], out.m[name])
    ELSE IF in.kind = "list"
    THEN /\ out.kind = "list"
         /\ Len(out.l) = Len(in.l)
         /\ \A i \in 1..Len(in.l) : MarkedLeavesResolved(k, in.l[i], out.l[i])
    ELSE (in.kind = "str" /\ StartsWithMarker(in.s)) =>
            /\ out.kind = "str"
            /\ decrypt(k, SlicePayload(in.s)) = Ok(out.s)

\* some leaf of the document cannot be decrypted under the key
SomeSecretUnresolvable ==
    \E payload \in DecryptArguments(dataDoc) :
        decrypt(encryption_key, payload).kind = "err"

\* C13: when the decryption of a leaf fails, the error propagates and the
\* construction fails; a constructed DataManager holds the plaintext of every
\* leaf that was handed to decrypt.
C13_UnresolvableSecretFailsConstruction ==
    /\ ( /\ dm # "unbuilt"
         /\ encryption_key \in EncryptionKeys
         /\ dataFileExists
         /\ SomeSecretUnresolvable )
       => /\ dm = "failed"
          /\ dres.kind = "err"
          /\ dres.exc \in {"InvalidToken", "binascii.Error"}
          /\ _data = PyNone
    /\ dm = "built" =>
          /\ ~SomeSecretUnresolvable
          /\ MarkedLeavesResolved(encryption_key, dataDoc, _data)

\* the construction failed on a mapping that also holds a resolvable secret
C13_Witness ==
    /\ dm = "failed"
    /\ dres.kind = "err"
    /\ dres.exc = "InvalidToken"
    /\ dataDoc.kind = "map"
    /\ \E payload \in DecryptArguments(dataDoc) :
          decrypt(encryption_key, payload).kind = "ok"

\* the construction failed with FileNotFoundError, without any decryption
FailedAsFileNotFound ==
    /\ dm = "failed"
    /\ dres.kind = "err"
    /\ dres.exc = "FileNotFoundError"
    /\ _data = PyNone
    /\ decrypted = {}

IsGetter == dlast.op \in {"get_test_data", "get_all_test_data"}

\* C23: the data is loaded and resolved once, by the constructor; no
\* get_test_data or get_all_test_data call changes the resolved tree, loads
\* the file or decrypts again; get_all_test_data returns the whole tree the
\* constructor produced, and get_test_data of a present name its value there.
C23_MaterializedOnceThenFrozen ==
    /\ [](dm = "built" => (dloads = 1 /\ _data = _load_data.val))
    /\ [][ dlast'.op \in {"get_test_data", "get_all_test_data"} =>
             /\ _data' = _data
             /\ dloads' = dloads
             /\ decrypted' = decrypted
             /\ dataDoc' = dataDoc ]_vars
    /\ [](dlast.op = "get_all_test_data" => dres = Ok(_data))
    /\ []((dlast.op = "get_test_data" /\ IsTopLevelKey(dlast.name))
             => dres = Ok(_data.m[dlast.name]))

C23_Witness ==
    /\ dm = "built"
    /\ dcalls = 2
    /\ dloads = 1
    /\ decrypted # {}
    /\ dlast.op = "get_test_data"
    /\ IsTopLevelKey(dlast.name)
    /\ dres = Ok(_data.m[dlast.name])

----------------------------------------------------------------------------
(* Properties of the SecretManager *)

\* the last call decrypted the held ciphertext
DecryptedHeld ==
    /\ clast.op = "decrypt"
    /\ held.by # "none"
    /\ clast.arg = held.text

\* the instance that decrypted and the one that encrypted share their key
SameKey == fernet[clast.m] = fernet[held.by]

\* C14: for every plaintext string and every valid key, encrypt returns a
\* text different from the plaintext, and decrypt of that text on a manager
\* bound to the same key returns the plaintext.
C14_RoundTrip ==
    /\ clast.op = "encrypt" => (cres.kind = "ok" /\ cres.val # clast.arg)
    /\ (DecryptedHeld /\ SameKey) => cres = Ok(held.plain)

\* the string has no code point that UTF-8 cannot encode
Encodable(s) == \A i \in 1..Len(s) : s[i] \notin Surrogates

\* C14, amended: the same for every plaintext string that UTF-8 can encode.
C14_RoundTripOfEncodable ==
    /\ (clast.op = "encrypt" /\ Encodable(clast.arg))
          => (cres.kind = "ok" /\ cres.val # clast.arg)
    /\ (DecryptedHeld /\ SameKey) => cres = Ok(held.plain)

C14_Witness ==
    /\ DecryptedHeld
    /\ SameKey
    /\ held.plain = <<"!","@","#">>
    /\ cres = Ok(held.plain)

\* C15: decrypting, on a manager bound to one key, a ciphertext made by a
\* manager bound to a different key fails with InvalidToken.
C15_OtherKeyIsInvalidToken ==
    (DecryptedHeld /\ ~SameKey) => cres = Err("InvalidToken", <<>>)

C15_Witness ==
    /\ DecryptedHeld
    /\ ~SameKey
    /\ cres = Err("InvalidToken", <<>>)

\* some encrypt call of a manager bound to k can return this text
ValidCiphertext(k, text) ==
    \E plain \in Plaintexts, iv \in IVs : encrypt(k, plain, iv) = Ok(text)

\* C16: decrypt of any string that is not a valid ciphertext under the bound
\* key fails with InvalidToken, whatever the defect of the string.
C16_InvalidIsAlwaysInvalidToken ==
    (clast.op = "decrypt" /\ ~ValidCiphertext(fernet[clast.m], clast.arg))
       => cres = Err("InvalidToken", <<>>)

----------------------------------------------------------------------------
(* lib/utils/logger.py: setup_logger                                       *)
(*                                                                         *)
(* logging.getLogger(__name__) is one object for the whole process, so its *)
(* handlers and its level are state that outlives a setup_logger call.     *)

\* the attributes of the logging module that name a level
LoggingLevels ==
    (<<"D","E","B","U","G">> :> 10)
 @@ (<<"I","N","F","O">> :> 20)
 @@ (<<"W","A","R","N","I","N","G">> :> 30)
 @@ (<<"E","R","R","O","R">> :> 40)
 @@ (<<"C","R","I","T","I","C","A","L">> :> 50)

\* getattr(logging, log_level.upper(), logging.INFO)
LevelOf(log_level) ==
    IF Upper(log_level) \in DOMAIN LoggingLevels
    THEN LoggingLevels[Upper(log_level)]
    ELSE LoggingLevels[<<"I","N","F","O">>]

\* logging.Formatter(fmt=LOG_FORMAT, datefmt=DATE_FORMAT)
StandardFormatter ==
    [fmt |-> "%(asctime)s - %(levelname)s - %(message)s",
     datefmt |-> "%Y-%m-%d %H:%M:%S"]

\* the n-th logging.FileHandler(log_filename) made in the process
FileHandler(n) ==
    [class |-> "FileHandler", id |-> n, formatter |-> StandardFormatter]

\* the tests that attach a logging.StreamHandler of their own
StreamTests == {"test_logger_formatting", "test_logger_message_filtering"}

\* the logging.StreamHandler of a test, given the logger's formatter
StreamHandler(test) ==
    [class |-> "StreamHandler", id |-> test, formatter |-> StandardFormatter]

\* Logger.addHandler: a handler object is attached once
AddHandler(hs, h) ==
    IF \E i \in 1..Len(hs) : hs[i] = h THEN hs ELSE Append(hs, h)

\* Logger.removeHandler
RemoveHandler(hs, h) ==
    LET keep(other) == other # h IN SelectSeq(hs, keep)

\* the level names handed to setup_logger
LogLevelInputs ==
    { <<"D","E","B","U","G">>, <<"i","n","f","o">>,
      <<"W","A","R","N","I","N","G">>, <<"I","N","V","A","L","I","D">> }

\* setup_logger
setup_logger(log_level) ==
    /\ lcalls < MaxSetupCalls
    /\ lcalls' = lcalls + 1
    /\ level' = LevelOf(log_level)
    /\ handlers' = AddHandler(handlers, FileHandler(lcalls + 1))
    /\ llast' = [op |-> "setup_logger", arg |-> log_level]
    /\ UNCHANGED <<locVars, dataVars, cipherVars, driverVars, commandVars>>

\* logger.addHandler(handler) with the stream handler of a test
addHandler(test) ==
    /\ lcalls > 0
    /\ handlers' = AddHandler(handlers, StreamHandler(test))
    /\ llast' = [op |-> "addHandler", arg |-> <<test>>]
    /\ UNCHANGED <<level, lcalls, locVars, dataVars, cipherVars, driverVars, commandVars>>

\* logger.removeHandler(handler) with the stream handler of a test
removeHandler(test) ==
    /\ lcalls > 0
    /\ handlers' = RemoveHandler(handlers, StreamHandler(test))
    /\ llast' = [op |-> "removeHandler", arg |-> <<test>>]
    /\ UNCHANGED <<level, lcalls, locVars, dataVars, cipherVars, driverVars, commandVars>>

\* the process after lib.utils.logger was imported
InitLogger ==
    /\ LocatorsIdle
    /\ DataIdle
    /\ CipherIdle
    /\ DriversIdle
    /\ CommandIdle
    /\ handlers = <<>>
    /\ level = 0
    /\ lcalls = 0
    /\ llast = [op |-> "import", arg |-> <<>>]

NextLogger ==
    \/ \E log_level \in LogLevelInputs : setup_logger(log_level)
    \/ \E test \in StreamTests : addHandler(test)
    \/ \E test \in StreamTests : removeHandler(test)

SpecLogger == InitLogger /\ [][NextLogger]_vars

----------------------------------------------------------------------------
(* Properties of the logger *)

\* no test has its stream handler attached
OnlySetupHandlers ==
    \A i \in 1..Len(handlers) : handlers[i].class # "StreamHandler"

\* C24: whenever setup_logger has returned, and no test has a handler of its
\* own attached, the logger has exactly one handler, a FileHandler with the
\* standard formatter.
C24_ExactlyOneFileHandler ==
    (llast.op = "setup_logger" /\ OnlySetupHandlers)
       => /\ Len(handlers) = 1
          /\ handlers[1].class = "FileHandler"
          /\ handlers[1].formatter = StandardFormatter

----------------------------------------------------------------------------
(* lib/types.py and lib/drivers.py: WebDriverFactory                       *)

\* class ApplicationType(Enum)
ApplicationType == [WEB |-> "web", MOBILE_NATIVE |-> "mobile-native",
                    MOBILE_WEB |-> "mobile-web"]

\* class ProviderType(Enum), as the name is bound once the module is loaded:
\* the second class statement of that name, its members in source order
ProviderType ==
    << [name |-> "BITBAR",    value |-> "test"],
       [name |-> "LOCAL",     value |-> "test"],
       [name |-> "SAUCELABS", value |-> "test"] >>

\* the position of a name in the body of an Enum class
IndexOf(enum, name) == CHOOSE i \in 1..Len(enum) : enum[i].name = name

\* enum.NAME: the member of that name; a name whose value an earlier name
\* already has is an alias of the earlier member
Member(enum, name) ==
    LET value == enum[IndexOf(enum, name)].value
        first == CHOOSE i \in 1..Len(enum) :
                    /\ enum[i].value = value
                    /\ \A j \in 1..(i - 1) : enum[j].value # value
    IN enum[first].name

ProviderNames == {"BITBAR", "LOCAL", "SAUCELABS"}

\* WebDriverFactory.register_driver
register_driver(classes, app_type, driver_key, provider_member, driver_class) ==
    (<<app_type, driver_key, provider_member>> :> driver_class) @@ classes

\* WebDriverFactory.__init__: the four registrations, in order
WebDriverFactory_init ==
    LET c0 == <<>>
        c1 == register_driver(c0, "MOBILE_NATIVE", "ANDROID",
                              Member(ProviderType, "LOCAL"), "LocalAndroidWebDriver")
        c2 == register_driver(c1, "MOBILE_NATIVE", "IOS",
                              Member(ProviderType, "LOCAL"), "LocalIOSWebDriver")
        c3 == register_driver(c2, "MOBILE_NATIVE", "ANDROID",
                              Member(ProviderType, "BITBAR"), "RemoteBitBarWebDriver")
        c4 == register_driver(c3, "MOBILE_NATIVE", "IOS",
                              Member(ProviderType, "SAUCELABS"), "RemoteSauceWebDriver")
    IN c4

\* the application type check left out
IsMobileNativeAlways(app_type) == TRUE

\* the negation of `app_type != ApplicationType.MOBILE_NATIVE`
IsMobileNative(app_type) == app_type = "MOBILE_NATIVE"

\* `provider not in (ProviderType.LOCAL, ProviderType.BITBAR)`
NotLocalNorBitbar(provider_member) ==
    provider_member \notin {Member(ProviderType, "LOCAL"), Member(ProviderType, "BITBAR")}

\* an unregistered platform answered with no driver and no error
UnsupportedPlatformIgnored(driver_key) == Ok("None")

\* raise ValueError(f"Unsupported platform: {properties.platform}")
UnsupportedPlatform(driver_key) ==
    Err("ValueError", <<"Unsupported platform", driver_key>>)

\* create_driver up to the choice of the driver class
SelectDriverClass(app_type, driver_key, provider_member) ==
    IF ~IsMobileNative(app_type)
    THEN Err("ValueError", <<"Unsupported application type", app_type>>)
    ELSE LET key == <<app_type, driver_key, provider_member>> IN
         IF key \in DOMAIN driver_classes THEN Ok(driver_classes[key])
         ELSE IF NotLocalNorBitbar(provider_member)
         THEN Err("NotImplementedError", <<provider_member>>)
         ELSE UnsupportedPlatform(driver_key)

\* what driver_class(properties).get_driver() may do: start a session, or
\* fail to reach the Appium server
SessionOutcomes == {"started", "WebDriverException"}

\* the platforms handed to create_driver: enum members, and a plain string
PlatformInputs == {"ANDROID", "IOS", "LINUX", "unsupported"}

\* the application types a factory is used with, and a plain string
ApplicationInputs == DOMAIN ApplicationType \cup {"unsupported"}

\* WebDriverFactory.create_driver
create_driver(driver_key) ==
    \E outcome \in SessionOutcomes :
        LET chosen == SelectDriverClass(application_type, driver_key, provider)
            selected == chosen.kind = "ok" /\ chosen.val # "None" IN
        /\ wcalls < MaxDriverCalls
        /\ wcalls' = wcalls + 1
        /\ wlast' = [op |-> "create_driver", platform |-> driver_key,
                     provider |-> wlast.provider,
                     selected |-> IF selected THEN chosen.val ELSE "none"]
        /\ wres' = IF ~selected THEN chosen
                   ELSE IF outcome = "started"
                   THEN Ok([class |-> chosen.val, platform |-> driver_key])
                   ELSE Err("WebDriverException", <<chosen.val>>)
        /\ created' = IF selected /\ outcome = "started"
                      THEN Append(created, [class |-> chosen.val, platform |-> driver_key])
                      ELSE created
        /\ UNCHANGED <<driver_classes, application_type, provider,
                       locVars, dataVars, cipherVars, loggerVars, commandVars>>

\* WebDriverFactory(execution_properties), for every application type and
\* every provider the properties may name
InitDrivers ==
    /\ LocatorsIdle
    /\ DataIdle
    /\ CipherIdle
    /\ LoggerIdle
    /\ CommandIdle
    /\ driver_classes = WebDriverFactory_init
    /\ application_type \in ApplicationInputs
    /\ \E name \in ProviderNames :
          /\ provider = Member(ProviderType, name)
          /\ wlast = [op |-> "init", platform |-> "", provider |-> name,
                      selected |-> "none"]
    /\ created = <<>>
    /\ wcalls = 0
    /\ wres = NoResult

NextDrivers == \E driver_key \in PlatformInputs : create_driver(driver_key)

SpecDrivers == InitDrivers /\ [][NextDrivers]_vars

----------------------------------------------------------------------------
(* Properties of the WebDriverFactory *)

\* the properties name this provider and this application type
Configured(name, app_type) ==
    wlast.provider = name /\ application_type = app_type

\* C25: create_driver raises ValueError "Unsupported application type"
\* whenever the application type is not MOBILE_NATIVE, whatever the platform
\* and the provider, and creates no driver.
C25_OtherApplicationTypeIsValueError ==
    [][ (wlast'.op = "create_driver" /\ application_type # "MOBILE_NATIVE")
          => /\ wres' = Err("ValueError",
                            <<"Unsupported application type", application_type>>)
             /\ wlast'.selected = "none"
             /\ created' = created ]_vars

C25_Witness ==
    /\ wlast.op = "create_driver"
    /\ Configured("SAUCELABS", "unsupported")
    /\ wlast.platform = "ANDROID"
    /\ wres.kind = "err"
    /\ wres.exc = "ValueError"
    /\ created = <<>>

\* no driver is registered for the platform under the factory's settings
Unregistered(driver_key) ==
    <<application_type, driver_key, provider>> \notin DOMAIN driver_classes

\* C26: with application type MOBILE_NATIVE and provider LOCAL or BITBAR,
\* create_driver for a platform without a registered driver raises ValueError
\* "Unsupported platform" and creates no driver.
C26_UnregisteredPlatformIsValueError ==
    [][ ( /\ wlast'.op = "create_driver"
          /\ application_type = "MOBILE_NATIVE"
          /\ wlast'.provider \in {"LOCAL", "BITBAR"}
          /\ Unregistered(wlast'.platform) )
          => /\ wres' = Err("ValueError",
                            <<"Unsupported platform", wlast'.platform>>)
             /\ wlast'.selected = "none"
             /\ created' = created ]_vars

C26_Witness ==
    /\ wlast.op = "create_driver"
    /\ Configured("LOCAL", "MOBILE_NATIVE")
    /\ wlast.platform = "unsupported"
    /\ wres = Err("ValueError", <<"Unsupported platform", "unsupported">>)
    /\ created = <<>>

\* the driver class create_driver chose in the last call
Selects(name, driver_key, driver_class) ==
    ( /\ wlast.op = "create_driver"
      /\ Configured(name, "MOBILE_NATIVE")
      /\ wlast.platform = driver_key )
       => wlast.selected = driver_class

\* C29: the four registrations of the constructor occupy four keys, so that
\* create_driver chooses LocalAndroidWebDriver for (ANDROID, LOCAL),
\* LocalIOSWebDriver for (IOS, LOCAL), RemoteBitBarWebDriver for (ANDROID,
\* BITBAR) and RemoteSauceWebDriver for (IOS, SAUCELABS).
C29_FourDistinctRegistrations ==
    /\ Selects("LOCAL", "ANDROID", "LocalAndroidWebDriver")
    /\ Selects("LOCAL", "IOS", "LocalIOSWebDriver")
    /\ Selects("BITBAR", "ANDROID", "RemoteBitBarWebDriver")
    /\ Selects("SAUCELABS", "IOS", "RemoteSauceWebDriver")
    /\ (wlast.op = "create_driver" /\ application_type = "MOBILE_NATIVE")
          => Cardinality(DOMAIN driver_classes) = 4

\* C30: with application type MOBILE_NATIVE and provider SAUCELABS,
\* create_driver for a platform without a registered driver raises
\* NotImplementedError naming the provider.
C30_UnregisteredSauceLabsIsNotImplemented ==
    ( /\ wlast.op = "create_driver"
      /\ Configured("SAUCELABS", "MOBILE_NATIVE")
      /\ Unregistered(wlast.platform) )
       => wres = Err("NotImplementedError", <<"SAUCELABS">>)

----------------------------------------------------------------------------
(* encrypt.py: the command line                                            *)

\* args.key: None when --key is absent, or the string given
KeyArgs == {"None", "", "k1", "k2", "short"}

\* the truth value Python gives args.key
Truthy(k) == k \notin {"None", ""}

\* the texts given to --text with --decrypt: what an encrypt run printed
\* under some key, or a text no run printed
CiphertextArgs ==
    InvalidTexts \cup {<<printed>> : printed \in Base64Texts}

\* the early exit left out
RequiresKeyNever(decrypt_flag, k) == FALSE

\* `args.decrypt and not args.key`
RequiresKey(decrypt_flag, k) == decrypt_flag /\ ~Truthy(k)

\* the exceptions `except (ValueError, InvalidToken)` catches: ValueError, its
\* subclasses binascii.Error and UnicodeEncodeError, and InvalidToken
IsCaught(exc) ==
    exc \in {"ValueError", "binascii.Error", "UnicodeEncodeError", "InvalidToken"}

\* what the process leaves behind when the try block raised
Failed(exc) ==
    [exit_status |-> 1,
     stdout |-> <<>>,
     stderr |-> IF IsCaught(exc) THEN <<"Error", exc>> ELSE <<"Traceback", exc>>]

\* the try block of main under key k; fresh: the key was generated
TryBlock(k, text, decrypt_flag, fresh, iv) ==
    IF SecretManager_init(k).kind = "err" THEN Failed(SecretManager_init(k).exc)
    ELSE IF decrypt_flag
    THEN LET result == decrypt(k, text) IN
         IF result.kind = "err" THEN Failed(result.exc)
         ELSE [exit_status |-> 0,
               stdout |-> << <<"Decrypted text", result.val>> >>,
               stderr |-> <<>>]
    ELSE LET encrypted == encrypt(k, text, iv) IN
         IF encrypted.kind = "err" THEN Failed(encrypted.exc)
         ELSE [exit_status |-> 0,
               stdout |-> (IF fresh THEN << <<"Generated key", k>> >> ELSE <<>>)
                            \o << <<"Encrypted text", encrypted.val>> >>,
               stderr |-> <<>>]

\* main: one run of the command
main(k, text, decrypt_flag) ==
    \E fresh_key \in EncryptionKeys, iv \in IVs :
        /\ args' = [key |-> k, text |-> text, decrypt |-> decrypt_flag]
        /\ IF RequiresKey(decrypt_flag, k)
           THEN /\ exit_status' = 1
                /\ stdout' = <<>>
                /\ stderr' = <<"Error", "Decryption requires a key">>
                /\ generated' = <<>>
                /\ constructed' = <<>>
                /\ attempted' = <<>>
           ELSE LET used == IF Truthy(k) THEN k ELSE fresh_key
                    out == TryBlock(used, text, decrypt_flag, ~Truthy(k), iv) IN
                /\ generated' = IF Truthy(k) THEN <<>> ELSE <<fresh_key>>
                /\ constructed' = <<used>>
                /\ attempted' = IF decrypt_flag /\ SecretManager_init(used).kind = "ok"
                                THEN <<text>> ELSE <<>>
                /\ exit_status' = out.exit_status
                /\ stdout' = out.stdout
                /\ stderr' = out.stderr
        /\ UNCHANGED <<locVars, dataVars, cipherVars, loggerVars, driverVars>>

\* before the command is run
InitCommand ==
    /\ LocatorsIdle
    /\ DataIdle
    /\ CipherIdle
    /\ LoggerIdle
    /\ DriversIdle
    /\ args = NoArgs
    /\ exit_status = -1
    /\ stdout = <<>>
    /\ stderr = <<>>
    /\ generated = <<>>
    /\ constructed = <<>>
    /\ attempted = <<>>

NextCommand ==
    \/ \E k \in KeyArgs, text \in Strings : main(k, text, FALSE)
    \/ \E k \in KeyArgs, text \in CiphertextArgs : main(k, text, TRUE)

SpecCommand == InitCommand /\ [][NextCommand]_vars

----------------------------------------------------------------------------
(* Properties of the command line *)

\* the command has run
Ran == exit_status # -1

\* a non-empty key was given
KeySupplied == Truthy(args.key)

\* decrypt mode without a key: status 1, no key generated, no cipher built,
\* nothing decrypted
DecryptWithoutKeyExits ==
    (args.decrypt /\ ~KeySupplied)
       => /\ exit_status = 1
          /\ generated = <<>>
          /\ constructed = <<>>
          /\ attempted = <<>>
          /\ stdout = <<>>

\* one key was generated, the text encrypted under it and that key printed
EncryptedUnderFreshKey ==
    /\ Len(generated) = 1
    /\ constructed = generated
    /\ Len(stdout) = 2
    /\ stdout[1] = <<"Generated key", generated[1]>>
    /\ stdout[2][1] = "Encrypted text"
    /\ decrypt(generated[1], stdout[2][2]) = Ok(args.text)

\* with a key given none is generated and none printed
SuppliedKeyNotPrinted ==
    KeySupplied
       => /\ generated = <<>>
          /\ \A i \in 1..Len(stdout) : stdout[i][1] # "Generated key"

\* C27: in decrypt mode without a key the command exits with status 1 before
\* a cipher is built or a decryption attempted and generates no key; in
\* encrypt mode without a key it generates one key, encrypts under it and
\* prints that key; with a key given it prints no key.
C27_KeyHandling ==
    Ran => /\ DecryptWithoutKeyExits
           /\ (~args.decrypt /\ ~KeySupplied) => EncryptedUnderFreshKey
           /\ SuppliedKeyNotPrinted

\* C27, amended: the same, the encrypt mode part for a text that UTF-8 can
\* encode; for another text one key is generated and the command exits with
\* status 1 printing neither a key nor a ciphertext.
C27_KeyHandlingOfEncodable ==
    Ran => /\ DecryptWithoutKeyExits
           /\ (~args.decrypt /\ ~KeySupplied /\ Encodable(args.text))
                 => EncryptedUnderFreshKey
           /\ (~args.decrypt /\ ~KeySupplied /\ ~Encodable(args.text))
                 => (Len(generated) = 1 /\ exit_status = 1 /\ stdout = <<>>)
           /\ SuppliedKeyNotPrinted

C27_Witness ==
    /\ Ran
    /\ args.decrypt
    /\ args.key = "None"
    /\ args.text = <<"tok_k1_secret">>
    /\ exit_status = 1
    /\ stderr = <<"Error", "Decryption requires a key">>
    /\ generated = <<>>
    /\ attempted = <<>>

====
